---- MODULE Spec2Model ----
(***************************************************************************)
(* The task scheduler of egg: the task store (server.rs), the start / run  *)
(* / wait / finish / fail protocol (server/run.rs) and the process runner  *)
(* (process.rs).  Every action is one critical section of the code: the    *)
(* statements executed between two points at which another tokio task can  *)
(* take the store lock or the record lock.  The output of one process and  *)
(* the plan store with the materialization of plans have their own         *)
(* next-state relations further down (SpecOutput, SpecPlans,               *)
(* SpecMaterialize).                                                       *)
(***************************************************************************)
EXTENDS Integers, Sequences, FiniteSets, TLC

\* Bounds of the model.
MaxTasks == 3
MaxChildren == 2
MaxComposites == 1
MaxStartRequests == 2
\* Start requests plus the child futures of the widest TaskGroup.
MaxConcurrency == 3

\* Bounds of the output model: lines the child writes to stdout (its stderr
\* carries at most one), and output requests on the process.
MaxLines == 2
MaxStreams == 2

\* Bounds of the plan model.
MaxPlans == 2
MaxVersions == 2
MaxPlanRequests == 2
MaxPlanDepth == 2
MaxPlanNodes == 4
MaxOps == 3
MaxLockTasks == 2

\* A task id that create_task never issued (a request may carry any UUID).
UnknownId == 0

\* Exit statuses a spawned command may report: zero and one non-zero status.
ExitCodes == {0, 3}

VARIABLES
    tasks,      \* Server.tasks: id -> ServerTask, ids issued in order 1, 2, ...
    runs,       \* per task id, the run_task futures spawned for it, in order
    procs,      \* per task id, the Processes created for it, in order
    clients,    \* the HTTP start requests
    fired,      \* history: per task, how often finished.notify_waiters() ran
    seen,       \* history: per task, the statuses it has had so far
    process,    \* one Process with its ProcessState and the child's two pipes
    streams,    \* the OutputStreams opened on that Process
    plans,      \* Server.plans: id -> ServerPlan, ids issued in order 1, 2, ...
    written,    \* history: per plan, the spec of its last create or update
    response,   \* the last response of a plan request
    planners,   \* the POST /plan/:plan_id requests (materializations)
    holder,     \* per mutex (0 = Server.tasks, t = record of task t): who holds it
    ops         \* the operations under way: lock steps left and locks held

\* The output of one process, and the plan store with its requests.
outputVars == <<process, streams>>
planVars == <<plans, written, response, planners>>
taskVars == <<tasks, runs, procs, clients, fired, seen>>
lockVars == <<holder, ops>>

vars ==
    <<tasks, runs, procs, clients, fired, seen, outputVars, planVars, lockVars>>

Terminal == {"Success", "Failure"}

\* error.rs: the Error values stored in ServerTask.error (None = no error).
NoError == [kind |-> "None", arg |-> 0]
CommandFailed == [kind |-> "CommandFailed", arg |-> 0]
ExitFailure(status) == [kind |-> "ExitFailure", arg |-> status]
TaskNotFound(id) == [kind |-> "TaskNotFound", arg |-> id]
TaskFailed(id) == [kind |-> "TaskFailed", arg |-> id]

\* tasks.rs: TaskSpec.  children is `parallel` or `serial`; empty for Command.
Command == [kind |-> "Command", children |-> <<>>]
TaskGroup(parallel) == [kind |-> "TaskGroup", children |-> parallel]
TaskList(serial) == [kind |-> "TaskList", children |-> serial]

\* Sequences of length 0..MaxChildren over the ids issued so far and UnknownId.
ChildSeqs(n) == UNION {[1..k -> UnknownId..n] : k \in 0..MaxChildren}

SpecInputs(n) ==
    {Command} \cup {TaskGroup(c) : c \in ChildSeqs(n)}
              \cup {TaskList(c) : c \in ChildSeqs(n)}

\* tasks.rs: TaskPlan, the plan reference of a task (None = not from a plan).
NoPlan == [id |-> 0, version |-> 0]
TaskPlan(id, version) == [id |-> id, version |-> version]

\* The ServerTask that create_task inserts.
NewServerTask(spec) ==
    [plan |-> NoPlan, spec |-> spec, status |-> "Pending", running |-> 0,
     error |-> NoError]

\* A run_task future as spawned by start_task.
NewRun ==
    [kind |-> "none", pc |-> "dispatch", children |-> <<>>, idx |-> 0,
     err |-> NoError, handles |-> <<>>]

\* One spawned child future of a TaskGroup run, about to call start_task.
\* `admitted` records that its start_task(child) returned Ok.
NewHandle == [pc |-> "start", admitted |-> FALSE, res |-> NoError]

\* Process::new(): no exit status yet (None is -1); the future that calls
\* Process::run is spawned with it.
NewProcess == [pc |-> "run", status |-> -1]

\* A start request before it arrives.
IdleClient == [pc |-> "idle", task |-> 0]

\* process.rs: Output, one line of the child's stdout or stderr.
Stdout(line) == [from |-> "Stdout", line |-> line]
Stderr(line) == [from |-> "Stderr", line |-> line]

\* Process::new() seen from inside: ProcessState {output: vec![], status:
\* None} (None is -1), with the lines the child has written to each pipe and
\* that no reader has taken yet, and the position of Process::run.
NewProcessState ==
    [pc |-> "new", output |-> <<>>, status |-> -1,
     stdout |-> <<>>, stderr |-> <<>>]

\* OutputStream::new(cmd): index 0.  `got` is the history of the items that
\* poll_next has yielded and `ended` that it has returned Ready(None).
NewOutputStream == [index |-> 0, got |-> <<>>, ended |-> FALSE]

\* No plan request answered yet.
NoResponse == [op |-> "none", status |-> "none", id |-> 0, spec |-> Command,
               version |-> 0]

\* A POST /plan/:plan_id request before it arrives.
IdlePlanner ==
    [pc |-> "idle", plan |-> NoPlan, spec |-> Command, stack |-> <<>>,
     before |-> 0, created |-> <<>>, result |-> 0]

\* The server after Server::new: both stores empty, no request under way.
InitServer ==
    /\ tasks = <<>>
    /\ runs = <<>>
    /\ procs = <<>>
    /\ clients = [c \in 1..MaxStartRequests |-> IdleClient]
    /\ fired = <<>>
    /\ seen = <<>>
    /\ plans = <<>>
    /\ written = <<>>
    /\ response = NoResponse
    /\ planners = [m \in 1..MaxPlanRequests |-> IdlePlanner]

\* No operation under way and every mutex free.
IdleOp == [todo |-> <<>>, held |-> <<>>]

Init ==
    /\ InitServer
    /\ process = NewProcessState
    /\ streams = <<>>
    /\ holder = [l \in 0..MaxLockTasks |-> 0]
    /\ ops = [o \in 1..MaxOps |-> IdleOp]

\* The (task id, index) pairs of the run_task futures and of the Processes.
Runs == UNION {{<<t, k>> : k \in DOMAIN runs[t]} : t \in DOMAIN runs}
Procs == UNION {{<<t, k>> : k \in DOMAIN procs[t]} : t \in DOMAIN procs}

----------------------------------------------------------------------------
\* The TaskGroup and TaskList tasks in the store.
Composites == {t \in DOMAIN tasks : tasks[t].spec.kind # "Command"}

\* handlers.rs create_task: insert a Pending task under a fresh id.  The
\* requests are taken in the order creates, then starts: an id is unknown to
\* every other request until create_task has returned it, so a create
\* commutes with the steps of all other tasks.
CreateTask(spec) ==
    /\ Len(tasks) < MaxTasks
    /\ spec.kind # "Command" => Cardinality(Composites) < MaxComposites
    /\ \A c \in DOMAIN clients : clients[c].pc = "idle"
    /\ tasks' = Append(tasks, NewServerTask(spec))
    /\ runs' = Append(runs, <<>>)
    /\ procs' = Append(procs, <<>>)
    /\ fired' = Append(fired, 0)
    /\ seen' = Append(seen, {"Pending"})
    /\ UNCHANGED clients
    /\ UNCHANGED <<outputVars, planVars, lockVars>>

----------------------------------------------------------------------------
\* A start_task gate that rejects only tasks that are already settled.
start_task_check_OnlyTerminal(task_id) ==
    IF task_id \notin DOMAIN tasks THEN "TaskNotFound"
    ELSE IF tasks[task_id].status \in Terminal THEN "InvalidTaskState"
    ELSE "Ok"

\* start_task, first critical section (store lock + record lock): the lookup
\* and the Pending gate.  Both locks are released before the second section.
start_task_check(task_id) ==
    IF task_id \notin DOMAIN tasks THEN "TaskNotFound"
    ELSE IF tasks[task_id].status # "Pending" THEN "InvalidTaskState"
    ELSE "Ok"

\* A start_task that moves every task to Running.
AdmittedStatus_AlwaysRunning(spec) == "Running"

\* start_task, second critical section (record lock only): the status the
\* task is moved to.
AdmittedStatus(spec) ==
    IF spec.kind = "Command" THEN "Running" ELSE "Waiting"

start_task_admit(ts, task_id) ==
    [ts EXCEPT ![task_id].status = AdmittedStatus(ts[task_id].spec)]

\* tokio::spawn(run_task(server, task_id)) at the end of start_task.
spawn_run_task(rs, task_id) ==
    [rs EXCEPT ![task_id] = Append(@, NewRun)]

\* finished.notify_waiters(): wakes every Notified future that exists now.
notify_waiters(rs, task_id) ==
    [t \in DOMAIN rs |-> [k \in DOMAIN rs[t] |->
        LET run == rs[t][k] IN
        IF run.kind # "TaskGroup"
        THEN IF /\ run.pc = "waiting"
                /\ run.children[run.idx] = task_id
             THEN [run EXCEPT !.pc = "woken"]
             ELSE run
        ELSE [run EXCEPT !.handles =
                [h \in DOMAIN run.handles |->
                    IF /\ run.handles[h].pc = "waiting"
                       /\ run.children[h] = task_id
                    THEN [run.handles[h] EXCEPT !.pc = "woken"]
                    ELSE run.handles[h]]]]]

\* finish_task: status := Success under the record lock.
finish_task(ts, task_id) ==
    IF task_id \in DOMAIN ts
    THEN [ts EXCEPT ![task_id].status = "Success"]
    ELSE ts

\* A fail_task that also fails every task that is still Running.
fail_task_CancelsRunning(ts, task_id, error) ==
    IF task_id \in DOMAIN ts
    THEN [t \in DOMAIN ts |->
            IF t = task_id \/ ts[t].status = "Running"
            THEN [ts[t] EXCEPT !.error = error, !.status = "Failure"]
            ELSE ts[t]]
    ELSE ts

\* A fail_task that sets the status and stores no error.
fail_task_NoError(ts, task_id, error) ==
    IF task_id \in DOMAIN ts
    THEN [ts EXCEPT ![task_id].status = "Failure"]
    ELSE ts

\* fail_task: error := Some(error), status := Failure under the record lock.
fail_task(ts, task_id, error) ==
    IF task_id \in DOMAIN ts
    THEN [ts EXCEPT ![task_id].error = error, ![task_id].status = "Failure"]
    ELSE ts

\* History: one more notify_waiters() call on the task's `finished`.
Fired(task_id) ==
    IF task_id \in DOMAIN tasks
    THEN [fired EXCEPT ![task_id] = @ + 1]
    ELSE fired

\* History: the task's status was set to `status`.
Seen(task_id, status) ==
    IF task_id \in DOMAIN tasks
    THEN [seen EXCEPT ![task_id] = @ \cup {status}]
    ELSE seen

\* A wait_task that returns Ok(()) for whatever status it reads.
wait_task_result_AnyStatusOk(task_id) ==
    IF task_id \notin DOMAIN tasks THEN "Err" ELSE "Ok"

\* wait_task after the notification: the result for the status it reads.
wait_task_result(task_id) ==
    IF task_id \notin DOMAIN tasks THEN "Err"
    ELSE IF tasks[task_id].status = "Success" THEN "Ok"
    ELSE IF tasks[task_id].status = "Failure" THEN "Err"
    ELSE "NotFinished"

\* The whole of finish_task(task_id) / fail_task(task_id, error) as the last
\* step of a future whose other variables `rs` already hold their new values.
Settle(rs, task_id, status, error) ==
    /\ tasks' = IF status = "Success"
                THEN finish_task(tasks, task_id)
                ELSE fail_task(tasks, task_id, error)
    /\ runs' = notify_waiters(rs, task_id)
    /\ fired' = Fired(task_id)
    /\ seen' = Seen(task_id, status)

----------------------------------------------------------------------------
\* The number of child futures the widest TaskGroup in the store spawns.
Width ==
    LET lens == {Len(tasks[t].spec.children) :
                    t \in {u \in DOMAIN tasks : tasks[u].spec.kind = "TaskGroup"}}
    IN IF lens = {} THEN 0 ELSE CHOOSE n \in lens : \A m \in lens : m <= n

\* handlers.rs start_task -> run.rs start_task, lines 21-32.  A request that
\* is rejected returns here.
ClientStart(c, task_id) ==
    /\ clients[c].pc = "idle"
    /\ \A d \in 1..(c - 1) : clients[d].pc # "idle"
    /\ c + Width <= MaxConcurrency
    /\ clients' = [clients EXCEPT ![c] =
            IF start_task_check(task_id) = "Ok"
            THEN [pc |-> "admit", task |-> task_id]
            ELSE [pc |-> start_task_check(task_id), task |-> 0]]
    /\ UNCHANGED <<tasks, runs, procs, fired, seen>>
    /\ UNCHANGED <<outputVars, planVars, lockVars>>

\* run.rs start_task, lines 34-56.
ClientAdmit(c) ==
    /\ clients[c].pc = "admit"
    /\ LET task_id == clients[c].task IN
        /\ tasks' = start_task_admit(tasks, task_id)
        /\ seen' = Seen(task_id, AdmittedStatus(tasks[task_id].spec))
        /\ runs' = spawn_run_task(runs, task_id)
    /\ clients' = [clients EXCEPT ![c] = [pc |-> "Ok", task |-> 0]]
    /\ UNCHANGED <<procs, fired>>
    /\ UNCHANGED <<outputVars, planVars, lockVars>>

----------------------------------------------------------------------------
\* run_task, Command branch (lines 64-89): attach a new Process to the task
\* and spawn the future that runs it.  (The task of a run is in the store:
\* nothing removes a task.)
RunCommand(t, k) ==
    /\ runs[t][k].pc = "dispatch"
    /\ tasks[t].spec.kind = "Command"
    /\ tasks' = [tasks EXCEPT ![t].running = Len(procs[t]) + 1]
    /\ procs' = [procs EXCEPT ![t] = Append(@, NewProcess)]
    /\ runs' = [runs EXCEPT ![t][k].pc = "done", ![t][k].kind = "Command"]
    /\ UNCHANGED <<clients, fired, seen>>
    /\ UNCHANGED <<outputVars, planVars, lockVars>>

\* Process::run as the scheduler sees it: Err(CommandFailed) when spawn()
\* (line 43) or wait() (line 76) fails, otherwise the exit status is recorded
\* (line 78) and the result is Ok(()).
ProcessRun(t, k, ok, status) ==
    /\ procs[t][k].pc = "run"
    /\ procs' = [procs EXCEPT ![t][k] =
            IF ok THEN [pc |-> "Ok", status |-> status]
                  ELSE [pc |-> "Err", status |-> -1]]
    /\ UNCHANGED <<tasks, runs, clients, fired, seen>>
    /\ UNCHANGED <<outputVars, planVars, lockVars>>

\* A run_task that calls finish_task whatever Process::run returned.
CommandOutcome_AlwaysFinish(proc) ==
    [status |-> "Success", error |-> NoError]

\* run_task lines 81-83: Process::run returned Ok(_), whatever the status.
CommandOutcome(proc) ==
    IF proc.pc = "Ok" THEN [status |-> "Success", error |-> NoError]
                      ELSE [status |-> "Failure", error |-> CommandFailed]

\* run_task lines 80-87: finish_task or fail_task after Process::run.
CommandSettle(t, k) ==
    /\ procs[t][k].pc \in {"Ok", "Err"}
    /\ Settle(runs, t, CommandOutcome(procs[t][k]).status,
              CommandOutcome(procs[t][k]).error)
    /\ procs' = [procs EXCEPT ![t][k].pc = "done"]
    /\ UNCHANGED clients
    /\ UNCHANGED <<outputVars, planVars, lockVars>>

----------------------------------------------------------------------------
\* What a caller of start_task(child) does with the result of the Pending
\* gate: go on to the second critical section, or map the ServerError.
StartOutcome(child) ==
    IF start_task_check(child) = "Ok" THEN [pc |-> "admit", err |-> NoError]
    ELSE IF start_task_check(child) = "TaskNotFound"
         THEN [pc |-> "fail", err |-> TaskNotFound(child)]
         ELSE [pc |-> "fail", err |-> TaskFailed(child)]

\* A TaskList branch that returns on an empty list without finish_task.
RunTaskList_EmptyReturns(t, k) ==
    /\ runs[t][k].pc = "dispatch"
    /\ tasks[t].spec.kind = "TaskList"
    /\ runs' = [runs EXCEPT ![t][k] =
            [@ EXCEPT !.kind = "TaskList",
                      !.children = tasks[t].spec.children,
                      !.idx = 1,
                      !.pc = IF tasks[t].spec.children = <<>>
                             THEN "done" ELSE "start"]]
    /\ UNCHANGED <<tasks, procs, clients, fired, seen>>
    /\ UNCHANGED <<outputVars, planVars, lockVars>>

\* run_task, TaskList branch: clone the spec and enter the loop (lines 64-72,
\* 127-128); an empty list goes straight to finish_task.
RunTaskList(t, k) ==
    /\ runs[t][k].pc = "dispatch"
    /\ tasks[t].spec.kind = "TaskList"
    /\ runs' = [runs EXCEPT ![t][k] =
            [@ EXCEPT !.kind = "TaskList",
                      !.children = tasks[t].spec.children,
                      !.idx = 1,
                      !.pc = IF tasks[t].spec.children = <<>>
                             THEN "finish" ELSE "start"]]
    /\ UNCHANGED <<tasks, procs, clients, fired, seen>>
    /\ UNCHANGED <<outputVars, planVars, lockVars>>

\* Line 130, first critical section of start_task(child).
ListStart(t, k) ==
    /\ runs[t][k].kind = "TaskList"
    /\ runs[t][k].pc = "start"
    /\ LET out == StartOutcome(runs[t][k].children[runs[t][k].idx]) IN
        runs' = [runs EXCEPT ![t][k].pc = out.pc, ![t][k].err = out.err]
    /\ UNCHANGED <<tasks, procs, clients, fired, seen>>
    /\ UNCHANGED <<outputVars, planVars, lockVars>>

\* Line 130, second critical section of start_task(child): returns Ok.
ListAdmit(t, k) ==
    /\ runs[t][k].kind = "TaskList"
    /\ runs[t][k].pc = "admit"
    /\ LET child == runs[t][k].children[runs[t][k].idx] IN
        /\ tasks' = start_task_admit(tasks, child)
        /\ seen' = Seen(child, AdmittedStatus(tasks[child].spec))
        /\ runs' = spawn_run_task([runs EXCEPT ![t][k].pc = "wait"], child)
    /\ UNCHANGED <<procs, clients, fired>>
    /\ UNCHANGED <<outputVars, planVars, lockVars>>

\* wait_task lines 197-204: snapshot `finished` and create the Notified
\* future; from here on a notify_waiters() wakes this caller.
ListWait(t, k) ==
    /\ runs[t][k].kind = "TaskList"
    /\ runs[t][k].pc = "wait"
    /\ LET child == runs[t][k].children[runs[t][k].idx] IN
        runs' = [runs EXCEPT ![t][k] =
            IF child \in DOMAIN tasks
            THEN [@ EXCEPT !.pc = "waiting"]
            ELSE [@ EXCEPT !.pc = "fail", !.err = TaskFailed(child)]]
    /\ UNCHANGED <<tasks, procs, clients, fired, seen>>
    /\ UNCHANGED <<outputVars, planVars, lockVars>>

\* wait_task lines 205-224 and the caller's lines 146-151: read the status
\* after the wake-up, then go to the next child or fail the parent.
ListWoken(t, k) ==
    /\ runs[t][k].kind = "TaskList"
    /\ runs[t][k].pc = "woken"
    /\ LET child == runs[t][k].children[runs[t][k].idx] IN
        runs' = [runs EXCEPT ![t][k] =
            IF wait_task_result(child) = "Ok"
            THEN [@ EXCEPT !.idx = @ + 1,
                           !.pc = IF runs[t][k].idx = Len(runs[t][k].children)
                                  THEN "finish" ELSE "start"]
            ELSE [@ EXCEPT !.pc = "fail", !.err = TaskFailed(child)]]
    /\ UNCHANGED <<tasks, procs, clients, fired, seen>>
    /\ UNCHANGED <<outputVars, planVars, lockVars>>

\* Lines 133-140, 147-149 (fail_task(parent, err); return) and line 153
\* (finish_task(parent)).
ListSettle(t, k) ==
    /\ runs[t][k].kind = "TaskList"
    /\ runs[t][k].pc \in {"fail", "finish"}
    /\ Settle([runs EXCEPT ![t][k].pc = "done"], t,
              IF runs[t][k].pc = "fail" THEN "Failure" ELSE "Success",
              runs[t][k].err)
    /\ UNCHANGED <<procs, clients>>
    /\ UNCHANGED <<outputVars, planVars, lockVars>>

----------------------------------------------------------------------------
\* run_task, TaskGroup branch, lines 90-116: spawn one future per child.
RunTaskGroup(t, k) ==
    /\ runs[t][k].pc = "dispatch"
    /\ tasks[t].spec.kind = "TaskGroup"
    /\ runs' = [runs EXCEPT ![t][k] =
            [@ EXCEPT !.kind = "TaskGroup",
                      !.children = tasks[t].spec.children,
                      !.pc = "join",
                      !.handles = [h \in DOMAIN tasks[t].spec.children
                                    |-> NewHandle]]]
    /\ UNCHANGED <<tasks, procs, clients, fired, seen>>
    /\ UNCHANGED <<outputVars, planVars, lockVars>>

\* A child future that gives up without start_task once the future of an
\* earlier child has ended in an error.
HandleStart_StopsAfterFailure(t, k, h) ==
    /\ runs[t][k].kind = "TaskGroup"
    /\ h \in DOMAIN runs[t][k].handles
    /\ runs[t][k].handles[h].pc = "start"
    /\ LET out == StartOutcome(runs[t][k].children[h])
           failed == \E g \in 1..(h - 1) :
                        /\ runs[t][k].handles[g].pc = "done"
                        /\ runs[t][k].handles[g].res # NoError
       IN
        runs' = [runs EXCEPT ![t][k].handles[h] =
            IF failed
            THEN [@ EXCEPT !.pc = "done"]
            ELSE IF out.pc = "admit"
            THEN [@ EXCEPT !.pc = "admit"]
            ELSE [@ EXCEPT !.pc = "done", !.res = out.err]]
    /\ UNCHANGED <<tasks, procs, clients, fired, seen>>
    /\ UNCHANGED <<outputVars, planVars, lockVars>>

\* Lines 96-106: start_task(child), first critical section; an error ends
\* the child future with Err(..) through `?`.
HandleStart(t, k, h) ==
    /\ runs[t][k].kind = "TaskGroup"
    /\ h \in DOMAIN runs[t][k].handles
    /\ runs[t][k].handles[h].pc = "start"
    /\ LET out == StartOutcome(runs[t][k].children[h]) IN
        runs' = [runs EXCEPT ![t][k].handles[h] =
            IF out.pc = "admit"
            THEN [@ EXCEPT !.pc = "admit"]
            ELSE [@ EXCEPT !.pc = "done", !.res = out.err]]
    /\ UNCHANGED <<tasks, procs, clients, fired, seen>>
    /\ UNCHANGED <<outputVars, planVars, lockVars>>

\* Line 96: start_task(child), second critical section.
HandleAdmit(t, k, h) ==
    /\ runs[t][k].kind = "TaskGroup"
    /\ h \in DOMAIN runs[t][k].handles
    /\ runs[t][k].handles[h].pc = "admit"
    /\ LET child == runs[t][k].children[h] IN
        /\ tasks' = start_task_admit(tasks, child)
        /\ seen' = Seen(child, AdmittedStatus(tasks[child].spec))
        /\ runs' = spawn_run_task(
                [runs EXCEPT ![t][k].handles[h].pc = "wait",
                             ![t][k].handles[h].admitted = TRUE], child)
    /\ UNCHANGED <<procs, clients, fired>>
    /\ UNCHANGED <<outputVars, planVars, lockVars>>

\* A wait_task(child) that goes on to read the status without awaiting the
\* notification.
HandleWait_NoAwait(t, k, h) ==
    /\ runs[t][k].kind = "TaskGroup"
    /\ h \in DOMAIN runs[t][k].handles
    /\ runs[t][k].handles[h].pc = "wait"
    /\ runs' = [runs EXCEPT ![t][k].handles[h].pc = "woken"]
    /\ UNCHANGED <<tasks, procs, clients, fired, seen>>
    /\ UNCHANGED <<outputVars, planVars, lockVars>>

\* Line 109: wait_task(child) up to the creation of the Notified future.
HandleWait(t, k, h) ==
    /\ runs[t][k].kind = "TaskGroup"
    /\ h \in DOMAIN runs[t][k].handles
    /\ runs[t][k].handles[h].pc = "wait"
    /\ LET child == runs[t][k].children[h] IN
        runs' = [runs EXCEPT ![t][k].handles[h] =
            IF child \in DOMAIN tasks
            THEN [@ EXCEPT !.pc = "waiting"]
            ELSE [@ EXCEPT !.pc = "done", !.res = TaskFailed(child)]]
    /\ UNCHANGED <<tasks, procs, clients, fired, seen>>
    /\ UNCHANGED <<outputVars, planVars, lockVars>>

\* Lines 109-113: the child future's value after wait_task returned.
HandleWoken(t, k, h) ==
    /\ runs[t][k].kind = "TaskGroup"
    /\ h \in DOMAIN runs[t][k].handles
    /\ runs[t][k].handles[h].pc = "woken"
    /\ LET child == runs[t][k].children[h] IN
        runs' = [runs EXCEPT ![t][k].handles[h] =
            [@ EXCEPT !.pc = "done",
                      !.res = IF wait_task_result(child) = "Ok"
                              THEN NoError ELSE TaskFailed(child)]]
    /\ UNCHANGED <<tasks, procs, clients, fired, seen>>
    /\ UNCHANGED <<outputVars, planVars, lockVars>>

\* handle.await yields Result<Result<(), Error>, JoinError>: the outer Err is
\* a JoinError (the child future panicked or was aborted), which no child
\* future does; the child's own Err(..) is the value inside the outer Ok.
JoinResult(handle) == [join |-> "Ok", value |-> handle.res]

\* Lines 118-123: the position of the first handle for which
\* `if let Err(_) = handle.await` matches, 0 when there is none.
FirstJoinErr(handles) ==
    LET errs == {h \in DOMAIN handles : JoinResult(handles[h]).join = "Err"}
    IN IF errs = {} THEN 0
       ELSE CHOOSE h \in errs : \A g \in errs : h <= g

\* Lines 118-125: the handles are awaited in order (awaiting changes
\* nothing); then fail_task(parent, TaskFailed(parent)) at the first outer
\* Err, or finish_task(parent) when every handle was awaited.
GroupSettle(t, k) ==
    /\ runs[t][k].kind = "TaskGroup"
    /\ runs[t][k].pc = "join"
    /\ LET handles == runs[t][k].handles
           stop == FirstJoinErr(handles)
           last == IF stop = 0 THEN Len(handles) ELSE stop
       IN /\ \A h \in 1..last : handles[h].pc = "done"
          /\ Settle([runs EXCEPT ![t][k].pc = "done"], t,
                    IF stop = 0 THEN "Success" ELSE "Failure",
                    TaskFailed(t))
    /\ UNCHANGED <<procs, clients>>
    /\ UNCHANGED <<outputVars, planVars, lockVars>>

----------------------------------------------------------------------------
Next ==
    \/ \E spec \in SpecInputs(Len(tasks)) : CreateTask(spec)
    \/ \E c \in DOMAIN clients, t \in UnknownId..Len(tasks) : ClientStart(c, t)
    \/ \E c \in DOMAIN clients : ClientAdmit(c)
    \/ \E r \in Runs : RunCommand(r[1], r[2])
    \/ \E p \in Procs, ok \in BOOLEAN, status \in ExitCodes :
            ProcessRun(p[1], p[2], ok, status)
    \/ \E p \in Procs : CommandSettle(p[1], p[2])
    \/ \E r \in Runs : RunTaskList(r[1], r[2])
    \/ \E r \in Runs : ListStart(r[1], r[2])
    \/ \E r \in Runs : ListAdmit(r[1], r[2])
    \/ \E r \in Runs : ListWait(r[1], r[2])
    \/ \E r \in Runs : ListWoken(r[1], r[2])
    \/ \E r \in Runs : ListSettle(r[1], r[2])
    \/ \E r \in Runs : RunTaskGroup(r[1], r[2])
    \/ \E r \in Runs, h \in 1..MaxChildren : HandleStart(r[1], r[2], h)
    \/ \E r \in Runs, h \in 1..MaxChildren : HandleAdmit(r[1], r[2], h)
    \/ \E r \in Runs, h \in 1..MaxChildren : HandleWait(r[1], r[2], h)
    \/ \E r \in Runs, h \in 1..MaxChildren : HandleWoken(r[1], r[2], h)
    \/ \E r \in Runs : GroupSettle(r[1], r[2])

Spec == Init /\ [][Next]_vars

----------------------------------------------------------------------------
\* The runs and tasks of one kind, and the positions of a child list that
\* name a task in the store.
ListRuns == {r \in Runs : runs[r[1]][r[2]].kind = "TaskList"}
GroupRuns == {r \in Runs : runs[r[1]][r[2]].kind = "TaskGroup"}
TasksOfKind(kind) == {t \in DOMAIN tasks : tasks[t].spec.kind = kind}
InStore(children) == {h \in DOMAIN children : children[h] \in DOMAIN tasks}

\* C1: once a task's status is Success or Failure no step changes it.
C1_TerminalFrozen ==
    [][\A t \in DOMAIN tasks :
        tasks[t].status \in Terminal => tasks'[t].status = tasks[t].status]_vars

\* C2: for every task at most one start_task call returns Ok, so at most one
\* run_task and at most one Process is ever spawned for it.
C2_SingleAdmission ==
    \A t \in DOMAIN tasks : Len(runs[t]) <= 1 /\ Len(procs[t]) <= 1

\* C3: a command whose process was spawned and waited on and exited with a
\* non-zero status settles as Failure with error ExitFailure(status).
C3_NonZeroExitFails ==
    \A p \in Procs :
        LET proc == procs[p[1]][p[2]] IN
        (proc.pc = "done" /\ proc.status \notin {-1, 0})
            => /\ tasks[p[1]].status = "Failure"
               /\ tasks[p[1]].error = ExitFailure(proc.status)

\* Some child of group t ended in Failure, or a child future of a run of t
\* ended without start_task having returned Ok to it.
GroupChildFailed(t) ==
    \/ \E h \in InStore(tasks[t].spec.children) :
            tasks[tasks[t].spec.children[h]].status = "Failure"
    \/ \E k \in DOMAIN runs[t] : \E h \in DOMAIN runs[t][k].handles :
            /\ runs[t][k].handles[h].pc = "done"
            /\ ~runs[t][k].handles[h].admitted

\* C4: a settled TaskGroup is Success iff every child is a task with status
\* Success, and Failure iff some child ended in Failure or could not be
\* started.
C4_GroupAggregate ==
    \A t \in TasksOfKind("TaskGroup") :
        tasks[t].status \in Terminal =>
            /\ tasks[t].status = "Success" <=>
                    \A h \in DOMAIN tasks[t].spec.children :
                        /\ tasks[t].spec.children[h] \in DOMAIN tasks
                        /\ tasks[tasks[t].spec.children[h]].status = "Success"
            /\ tasks[t].status = "Failure" <=> GroupChildFailed(t)

\* The last position of its list on which a TaskList run has called
\* start_task.
StartedUpTo(run) == IF run.pc = "start" THEN run.idx - 1
                    ELSE IF run.idx > Len(run.children) THEN Len(run.children)
                    ELSE run.idx

\* C5: when the child at position j of a TaskList has failed (settled as
\* Failure, or its start was rejected), the run has called start on no later
\* position, and a run that returned on a failure leaves the parent Failure.
C5_StopsAtFirstFailure ==
    \A r \in ListRuns :
        LET run == runs[r[1]][r[2]] IN
        /\ \A j \in InStore(run.children) :
                "Failure" \in seen[run.children[j]] => StartedUpTo(run) <= j
        /\ (run.pc = "done" /\ run.err # NoError)
                => tasks[r[1]].status = "Failure"

\* C6: in the step in which a TaskList run moves the child at position idx
\* out of Pending, every child at an earlier position has status Success.
C6_SerialOrder ==
    [][\A r \in ListRuns :
        LET run == runs[r[1]][r[2]] IN
        (run.pc = "admit" /\ runs'[r[1]][r[2]].pc = "wait")
            => \A j \in 1..(run.idx - 1) :
                    tasks[run.children[j]].status = "Success"]_vars

\* C7 as claimed: a settled TaskList is Success iff every child in its list
\* has reached Success, and Failure otherwise.
C7_ListIffChildren ==
    \A t \in TasksOfKind("TaskList") :
        tasks[t].status \in Terminal =>
            (tasks[t].status = "Success" <=>
                \A h \in DOMAIN tasks[t].spec.children :
                    /\ tasks[t].spec.children[h] \in DOMAIN tasks
                    /\ "Success" \in seen[tasks[t].spec.children[h]])

\* C7 as amended: a TaskList with status Success has had every child of its
\* list reach Success (the converse fails: a child that a client started is
\* rejected by the run's start_task, and the list is Failure).
C7_ListSuccessImpliesChildren ==
    \A t \in TasksOfKind("TaskList") :
        tasks[t].status = "Success" =>
            \A h \in DOMAIN tasks[t].spec.children :
                /\ tasks[t].spec.children[h] \in DOMAIN tasks
                /\ "Success" \in seen[tasks[t].spec.children[h]]

C7_Witness ==
    \E t \in TasksOfKind("TaskList") :
        /\ tasks[t].status = "Success"
        /\ Len(tasks[t].spec.children) = MaxChildren

\* C8 as claimed: when a TaskGroup has status Success or Failure, every child
\* of its list that is in the store has status Success or Failure.
C8_GroupWaitsForAll ==
    \A t \in TasksOfKind("TaskGroup") :
        tasks[t].status \in Terminal =>
            \A h \in InStore(tasks[t].spec.children) :
                tasks[tasks[t].spec.children[h]].status \in Terminal

\* C8 as amended: a TaskGroup run settles the group only after every child
\* that the run itself started (start_task returned Ok to it) has settled; a
\* child whose start was rejected is not waited for.
C8_GroupWaitsForStarted ==
    \A r \in GroupRuns :
        LET run == runs[r[1]][r[2]] IN
        run.pc = "done" =>
            \A h \in DOMAIN run.handles :
                run.handles[h].admitted =>
                    seen[run.children[h]] \cap Terminal # {}

C8_Witness ==
    \E r \in GroupRuns :
        /\ runs[r[1]][r[2]].pc = "done"
        /\ tasks[r[1]].status \in Terminal
        /\ \E h \in DOMAIN runs[r[1]][r[2]].handles :
                runs[r[1]][r[2]].handles[h].admitted

\* C9: finished is signalled exactly once per task: not while the task is
\* not settled, once when it is, and never a second time.
C9_FinishedOnce ==
    \A t \in DOMAIN tasks :
        fired[t] = IF tasks[t].status \in Terminal THEN 1 ELSE 0

\* C10: a wait_task that was woken by finished reads a terminal status.
C10_WokenReadsTerminal ==
    /\ \A r \in ListRuns :
        LET run == runs[r[1]][r[2]] IN
        run.pc = "woken" => tasks[run.children[run.idx]].status \in Terminal
    /\ \A r \in GroupRuns :
        LET run == runs[r[1]][r[2]] IN
        \A h \in DOMAIN run.handles :
            run.handles[h].pc = "woken"
                => tasks[run.children[h]].status \in Terminal

\* The callers of wait_task(child) that hold a Notified future on the
\* child's `finished` and have not been woken.
ListWaiters(child) ==
    {r \in ListRuns : /\ runs[r[1]][r[2]].pc = "waiting"
                      /\ runs[r[1]][r[2]].children[runs[r[1]][r[2]].idx] = child}

GroupWaiters(child) ==
    {r \in GroupRuns : \E h \in DOMAIN runs[r[1]][r[2]].handles :
                            /\ runs[r[1]][r[2]].handles[h].pc = "waiting"
                            /\ runs[r[1]][r[2]].children[h] = child}

\* Some start_task call has passed the Pending gate for the task and has not
\* yet run its second critical section.
AdmitPending(task_id) ==
    \/ \E c \in DOMAIN clients :
            clients[c].pc = "admit" /\ clients[c].task = task_id
    \/ \E r \in ListRuns :
            /\ runs[r[1]][r[2]].pc = "admit"
            /\ runs[r[1]][r[2]].children[runs[r[1]][r[2]].idx] = task_id
    \/ \E r \in GroupRuns : \E h \in DOMAIN runs[r[1]][r[2]].handles :
            /\ runs[r[1]][r[2]].handles[h].pc = "admit"
            /\ runs[r[1]][r[2]].children[h] = task_id

\* The task has settled and finish_task / fail_task will not be called for it
\* again: every run_task future and every Process of it has ended and no
\* start_task can be admitted any more.
Settled(task_id) ==
    /\ tasks[task_id].status \in Terminal
    /\ \A k \in DOMAIN runs[task_id] : runs[task_id][k].pc = "done"
    /\ \A k \in DOMAIN procs[task_id] : procs[task_id][k].pc = "done"
    /\ ~AdmitPending(task_id)

\* C11: every wait_task call on a task that settles returns: no caller is
\* left awaiting the notification of a task that has settled for good.
C11_WaitersReturn ==
    \A child \in DOMAIN tasks :
        Settled(child) => ListWaiters(child) \cup GroupWaiters(child) = {}

\* C14: a start request on a task that is not Pending is answered
\* InvalidTaskState and one on an id not in the store TaskNotFound (so a
\* request is admitted only for a Pending task), and the step of a rejected
\* request changes no task and spawns no run and no process.
C14_RejectedStartChangesNothing ==
    [][/\ \A t \in UnknownId..Len(tasks) :
            /\ t \notin DOMAIN tasks => start_task_check(t) = "TaskNotFound"
            /\ (t \in DOMAIN tasks /\ tasks[t].status # "Pending")
                    => start_task_check(t) = "InvalidTaskState"
       /\ \A c \in DOMAIN clients :
            (clients[c].pc = "idle" /\ clients'[c].pc # "idle") =>
                IF clients'[c].pc = "admit"
                THEN /\ clients'[c].task \in DOMAIN tasks
                     /\ tasks[clients'[c].task].status = "Pending"
                ELSE /\ clients'[c].pc \in {"InvalidTaskState", "TaskNotFound"}
                     /\ tasks' = tasks /\ runs' = runs /\ procs' = procs]_vars

C14_Witness ==
    \E c, d \in DOMAIN clients :
        clients[c].pc = "Ok" /\ clients[d].pc = "InvalidTaskState"

\* C15: when Process::run returned Err(CommandFailed), the step that settles
\* the task stores Failure with error CommandFailed and signals finished,
\* which wakes every caller of wait_task that is awaiting it.
C15_CommandFailedSettles ==
    [][\A p \in Procs :
        (procs[p[1]][p[2]].pc = "Err" /\ procs'[p[1]][p[2]].pc = "done") =>
            /\ tasks'[p[1]].status = "Failure"
            /\ tasks'[p[1]].error = CommandFailed
            /\ fired'[p[1]] = fired[p[1]] + 1
            /\ \A r \in ListWaiters(p[1]) : runs'[r[1]][r[2]].pc = "woken"
            /\ \A r \in GroupWaiters(p[1]) :
                \A h \in DOMAIN runs[r[1]][r[2]].handles :
                    (/\ runs[r[1]][r[2]].handles[h].pc = "waiting"
                     /\ runs[r[1]][r[2]].children[h] = p[1])
                        => runs'[r[1]][r[2]].handles[h].pc = "woken"]_vars

C15_Witness ==
    \E p \in Procs : \E r \in ListRuns :
        /\ procs[p[1]][p[2]].pc = "done"
        /\ procs[p[1]][p[2]].status = -1
        /\ tasks[p[1]].status = "Failure"
        /\ tasks[p[1]].error = CommandFailed
        /\ runs[r[1]][r[2]].pc = "woken"
        /\ runs[r[1]][r[2]].children[runs[r[1]][r[2]].idx] = p[1]

\* C19: a task's `running` is Some exactly while its spec is Command and its
\* status is Running.
C19_RunningIffCommandRunning ==
    \A t \in DOMAIN tasks :
        tasks[t].running # 0 <=>
            (tasks[t].spec.kind = "Command" /\ tasks[t].status = "Running")

----------------------------------------------------------------------------
\* The steps of the run_task future k of task t, its child futures included,
\* and the steps of the future that drives Process k of task t.  tokio polls
\* every spawned future that can make progress.
RunTaskStep(t, k) ==
    \/ RunCommand(t, k)
    \/ RunTaskList(t, k) \/ ListStart(t, k) \/ ListAdmit(t, k)
    \/ ListWait(t, k) \/ ListWoken(t, k) \/ ListSettle(t, k)
    \/ RunTaskGroup(t, k) \/ GroupSettle(t, k)
    \/ \E h \in 1..MaxChildren :
            \/ HandleStart(t, k, h) \/ HandleAdmit(t, k, h)
            \/ HandleWait(t, k, h) \/ HandleWoken(t, k, h)

ProcessStep(t, k) ==
    \/ \E ok \in BOOLEAN, status \in ExitCodes : ProcessRun(t, k, ok, status)
    \/ CommandSettle(t, k)

\* Weak fairness of every spawned future.
Fairness ==
    \A t \in 1..MaxTasks : \A k \in 1..MaxStartRequests :
        /\ WF_vars(IF <<t, k>> \in Runs THEN RunTaskStep(t, k) ELSE FALSE)
        /\ WF_vars(IF <<t, k>> \in Procs THEN ProcessStep(t, k) ELSE FALSE)

FairSpec == Spec /\ Fairness

\* The server when every composite task in the store has no children: the
\* create requests carry a Command or an empty `parallel` / `serial`, and the
\* steps left are those that such tasks can take.
EmptySpecInputs == {Command, TaskGroup(<<>>), TaskList(<<>>)}

NextEmpty ==
    \/ \E spec \in EmptySpecInputs : CreateTask(spec)
    \/ \E c \in DOMAIN clients, t \in UnknownId..Len(tasks) : ClientStart(c, t)
    \/ \E c \in DOMAIN clients : ClientAdmit(c)
    \/ \E r \in Runs : RunCommand(r[1], r[2])
    \/ \E p \in Procs, ok \in BOOLEAN, status \in ExitCodes :
            ProcessRun(p[1], p[2], ok, status)
    \/ \E p \in Procs : CommandSettle(p[1], p[2])
    \/ \E r \in Runs : RunTaskList(r[1], r[2])
    \/ \E r \in Runs : ListSettle(r[1], r[2])
    \/ \E r \in Runs : RunTaskGroup(r[1], r[2])
    \/ \E r \in Runs : GroupSettle(r[1], r[2])

SpecEmpty == Init /\ [][NextEmpty]_vars /\ Fairness

\* The composite tasks with no children.
EmptyComposites == {t \in Composites : tasks[t].spec.children = <<>>}

\* C16: a started composite task with no children (status Waiting) reaches
\* Success, and its run_task never calls start_task or wait_task.
C16_EmptyCompositeSucceeds ==
    /\ \A t \in 1..MaxTasks :
            (IF t \in EmptyComposites
             THEN tasks[t].status = "Waiting" ELSE FALSE)
                ~> (IF t \in EmptyComposites
                    THEN tasks[t].status = "Success" ELSE FALSE)
    /\ [](\A t \in EmptyComposites : \A k \in DOMAIN runs[t] :
            /\ runs[t][k].pc \in {"dispatch", "finish", "join", "done"}
            /\ runs[t][k].handles = <<>>)

C16_Witness ==
    \E t \in EmptyComposites :
        /\ tasks[t].status = "Success"
        /\ \E k \in DOMAIN runs[t] : runs[t][k].pc = "done"

----------------------------------------------------------------------------
(***************************************************************************)
(* The output of one Process (process.rs): Process::run with its two       *)
(* reader tasks, and the OutputStreams that GET /tasks/:task_id/output     *)
(* opens on it.                                                            *)
(***************************************************************************)

\* Process::run lines 38-49: spawn the child.  A spawn error returns
\* Err(CommandFailed) and leaves ProcessState as it is.  The child writes
\* nout lines to stdout and nerr lines to stderr; a line stays in its pipe
\* until the reader task takes it.
ProcessSpawn(ok, nout, nerr) ==
    /\ process.pc = "new"
    /\ process' = IF ok
                  THEN [process EXCEPT
                            !.pc = "spawned",
                            !.stdout = [i \in 1..nout |-> Stdout(i)],
                            !.stderr = [i \in 1..nerr |-> Stderr(i)]]
                  ELSE [process EXCEPT !.pc = "Err"]
    /\ UNCHANGED <<streams, taskVars, planVars, lockVars>>

\* A stdout reader that files each line at the front of the buffer.
StdoutReader_Prepends ==
    /\ process.stdout # <<>>
    /\ process' = [process EXCEPT
                        !.output = <<Head(process.stdout)>> \o @,
                        !.stdout = Tail(@)]
    /\ UNCHANGED <<streams, taskVars, planVars, lockVars>>

\* Lines 52-61: the stdout reader task pushes the next line under the lock.
StdoutReader ==
    /\ process.stdout # <<>>
    /\ process' = [process EXCEPT
                        !.output = Append(@, Head(process.stdout)),
                        !.stdout = Tail(@)]
    /\ UNCHANGED <<streams, taskVars, planVars, lockVars>>

\* Lines 64-73: the stderr reader task.
StderrReader ==
    /\ process.stderr # <<>>
    /\ process' = [process EXCEPT
                        !.output = Append(@, Head(process.stderr)),
                        !.stderr = Tail(@)]
    /\ UNCHANGED <<streams, taskVars, planVars, lockVars>>

\* Lines 75-80: process.wait() returns once the child has exited, whether or
\* not the readers have drained the pipes; status := Some(status).  A wait
\* error returns Err(CommandFailed) with the status still None.
ProcessWait(ok, status) ==
    /\ process.pc = "spawned"
    /\ process' = IF ok
                  THEN [process EXCEPT !.pc = "Ok", !.status = status]
                  ELSE [process EXCEPT !.pc = "Err"]
    /\ UNCHANGED <<streams, taskVars, planVars, lockVars>>

\* handlers.rs task_output_stream for the task whose `running` is this
\* Process: a new OutputStream.
task_output_stream ==
    /\ Len(streams) < MaxStreams
    /\ streams' = Append(streams, NewOutputStream)
    /\ UNCHANGED <<process, taskVars, planVars, lockVars>>

\* A poll_next that yields the item at its index without moving the index.
poll_next_NoAdvance(s) ==
    /\ ~streams[s].ended
    /\ streams[s].index < Len(process.output)
    /\ streams' = [streams EXCEPT
            ![s].got = Append(@, process.output[streams[s].index + 1])]
    /\ UNCHANGED <<process, taskVars, planVars, lockVars>>

\* OutputStream::poll_next (lines 100-119) when it returns Ready: the item at
\* `index` (Vec::get(index) is the entry index + 1 of the sequence), or
\* None once the status is set.  The Pending returns (lock busy, or no item
\* and no status) change nothing and are polled again.
poll_next(s) ==
    /\ ~streams[s].ended
    /\ IF streams[s].index < Len(process.output)
       THEN streams' = [streams EXCEPT
                ![s].index = @ + 1,
                ![s].got = Append(@, process.output[streams[s].index + 1])]
       ELSE /\ process.status # -1
            /\ streams' = [streams EXCEPT ![s].ended = TRUE]
    /\ UNCHANGED <<process, taskVars, planVars, lockVars>>

NextOutput ==
    \/ \E ok \in BOOLEAN, nout \in 0..MaxLines, nerr \in 0..1 :
            ProcessSpawn(ok, nout, nerr)
    \/ StdoutReader
    \/ StderrReader
    \/ \E ok \in BOOLEAN, status \in ExitCodes : ProcessWait(ok, status)
    \/ task_output_stream
    \/ \E s \in DOMAIN streams : poll_next(s)

SpecOutput == Init /\ [][NextOutput]_vars

\* The lines the child has written that are still in a pipe.
Unread == Len(process.stdout) + Len(process.stderr)

\* C12: a consumer that was told end-of-stream has been yielded every line
\* the process ever produces: its index is the final length of the buffer.
C12_EndAfterAllLines ==
    \A s \in DOMAIN streams :
        streams[s].ended =>
            /\ streams[s].index = Len(process.output)
            /\ Unread = 0

\* C13: after every step each consumer has been yielded exactly the first
\* `index` entries of the buffer; a step extends the buffer and each
\* consumer's items at the end only, by at most one item, and changes at
\* most one consumer, leaving the buffer alone when it does.
C13_ConsumerSeesPrefix ==
    [][/\ \A s \in DOMAIN streams' :
            /\ streams'[s].index <= Len(process'.output)
            /\ streams'[s].got =
                    SubSeq(process'.output, 1, streams'[s].index)
       /\ Len(process.output) <= Len(process'.output)
       /\ SubSeq(process'.output, 1, Len(process.output)) = process.output
       /\ \A s \in DOMAIN streams :
            /\ Len(streams'[s].got) \in
                    {Len(streams[s].got), Len(streams[s].got) + 1}
            /\ SubSeq(streams'[s].got, 1, Len(streams[s].got)) = streams[s].got
            /\ streams'[s] # streams[s] =>
                    /\ process' = process
                    /\ \A u \in DOMAIN streams \ {s} : streams'[u] = streams[u]
      ]_vars

C13_Witness ==
    \E s, u \in DOMAIN streams :
        /\ streams[s].index = Len(process.output)
        /\ streams[s].index > streams[u].index
        /\ streams[u].index > 0
        /\ \E i, j \in DOMAIN process.output :
                /\ process.output[i].from = "Stdout"
                /\ process.output[j].from = "Stderr"

----------------------------------------------------------------------------
(***************************************************************************)
(* The plan store (egg/server/handlers.rs) and the materialization of a    *)
(* plan into tasks (server/plan.rs).                                       *)
(***************************************************************************)

\* plans.rs: PlanSpec, a tree.  A Command, or a TaskGroup / TaskList whose
\* `parallel` / `serial` holds 0..MaxChildren PlanSpecs, nested d levels.
RECURSIVE PlanSpecsOfDepth(_)
PlanSpecsOfDepth(d) ==
    IF d = 0 THEN {Command}
    ELSE LET sub == PlanSpecsOfDepth(d - 1)
             seqs == UNION {[1..n -> sub] : n \in 0..MaxChildren}
         IN {Command} \cup {TaskGroup(c) : c \in seqs}
                      \cup {TaskList(c) : c \in seqs}

RECURSIVE SumSeq(_)
SumSeq(q) == IF q = <<>> THEN 0 ELSE Head(q) + SumSeq(Tail(q))

\* The number of nodes of a PlanSpec tree.
RECURSIVE NodeCount(_)
NodeCount(spec) ==
    1 + SumSeq([i \in DOMAIN spec.children |-> NodeCount(spec.children[i])])

\* The PlanSpecs a request body may carry.
PlanSpecInputs ==
    {spec \in PlanSpecsOfDepth(MaxPlanDepth) : NodeCount(spec) <= MaxPlanNodes}

\* handlers.rs create_plan: a new ServerPlan {versions: vec![spec]} under a
\* fresh id; the response carries version 0.
create_plan(spec) ==
    /\ Len(plans) < MaxPlans
    /\ plans' = Append(plans, [versions |-> <<spec>>])
    /\ written' = Append(written, spec)
    /\ response' = [op |-> "create", status |-> "Ok", id |-> Len(plans) + 1,
                    spec |-> spec, version |-> 0]
    /\ UNCHANGED <<planners, taskVars, outputVars, lockVars>>

\* An update_plan that files the new spec before the versions it has.
update_plan_KeepsLatest(plan_id, spec) ==
    /\ plan_id \in DOMAIN plans
    /\ Len(plans[plan_id].versions) < MaxVersions
    /\ plans' = [plans EXCEPT ![plan_id].versions = <<spec>> \o @]
    /\ written' = [written EXCEPT ![plan_id] = spec]
    /\ response' = [op |-> "update", status |-> "Ok", id |-> plan_id,
                    spec |-> spec,
                    version |-> Len(plans[plan_id].versions) + 1]
    /\ UNCHANGED <<planners, taskVars, outputVars, lockVars>>

\* handlers.rs update_plan: PlanNotFound for an id not in the store,
\* otherwise versions.push(spec) and the new length as the version.
update_plan(plan_id, spec) ==
    /\ IF plan_id \notin DOMAIN plans
       THEN /\ response' = [op |-> "update", status |-> "PlanNotFound",
                            id |-> plan_id, spec |-> spec, version |-> 0]
            /\ UNCHANGED <<plans, written>>
       ELSE /\ Len(plans[plan_id].versions) < MaxVersions
            /\ plans' = [plans EXCEPT ![plan_id].versions = Append(@, spec)]
            /\ written' = [written EXCEPT ![plan_id] = spec]
            /\ response' = [op |-> "update", status |-> "Ok", id |-> plan_id,
                            spec |-> spec,
                            version |-> Len(plans[plan_id].versions) + 1]
    /\ UNCHANGED <<planners, taskVars, outputVars, lockVars>>

\* handlers.rs get_plan: the last entry of versions and their number;
\* TaskNotFound for an id not in the store.
get_plan(plan_id) ==
    /\ response' =
        IF plan_id \notin DOMAIN plans
        THEN [op |-> "get", status |-> "TaskNotFound", id |-> plan_id,
              spec |-> Command, version |-> 0]
        ELSE IF plans[plan_id].versions = <<>>
        THEN [op |-> "get", status |-> "PlanNotFound", id |-> plan_id,
              spec |-> Command, version |-> 0]
        ELSE [op |-> "get", status |-> "Ok", id |-> plan_id,
              spec |-> plans[plan_id].versions[Len(plans[plan_id].versions)],
              version |-> Len(plans[plan_id].versions)]
    /\ UNCHANGED <<plans, written, planners, taskVars, outputVars, lockVars>>

\* The plan requests on a store of up to MaxPlans plans of up to
\* MaxVersions versions, with bodies of one level of nesting.
NextPlans ==
    \/ \E spec \in PlanSpecsOfDepth(1) : create_plan(spec)
    \/ \E id \in UnknownId..Len(plans), spec \in PlanSpecsOfDepth(1) :
            update_plan(id, spec)
    \/ \E id \in UnknownId..Len(plans) : get_plan(id)

SpecPlans == Init /\ [][NextPlans]_vars

\* C20: a GET on a plan's id answers with that id and the spec of the most
\* recent create or update of it, and no step removes a plan.
C20_GetReturnsLastWritten ==
    [][/\ DOMAIN plans \subseteq DOMAIN plans'
       /\ DOMAIN written' = DOMAIN plans'
       /\ \A id \in DOMAIN plans' :
            (response'.op = "get" /\ response'.id = id)
                => /\ response'.status = "Ok"
                   /\ response'.spec = written'[id]]_vars

C20_Witness ==
    /\ response.op = "get"
    /\ response.status = "Ok"
    /\ response.id = MaxPlans
    /\ Len(plans[response.id].versions) = MaxVersions
    /\ plans[response.id].versions[1] # response.spec
    /\ plans[1].versions # plans[response.id].versions

----------------------------------------------------------------------------
\* One activation of plan::task: the PlanSpec node it was called with and
\* the ids of the children registered so far (its local `tasks`).
NewFrame(spec) == [spec |-> spec, ids |-> <<>>]

\* plan::task lines 42-47 and 70-75: the recursive calls made before the
\* next insert; the innermost activation is last.
RECURSIVE Descend(_)
Descend(stack) ==
    LET top == stack[Len(stack)] IN
    IF Len(top.ids) < Len(top.spec.children)
    THEN Descend(Append(stack, NewFrame(top.spec.children[Len(top.ids) + 1])))
    ELSE stack

\* A TaskSpec that lists the child ids last-registered first.
TaskSpecOf_Reversed(frame) ==
    [kind |-> frame.spec.kind,
     children |-> [i \in DOMAIN frame.ids |->
                        frame.ids[Len(frame.ids) + 1 - i]]]

\* A TaskSpec that lists ids reserved for children not registered yet.
TaskSpecOf_Unregistered(frame) ==
    [kind |-> frame.spec.kind,
     children |-> [i \in DOMAIN frame.spec.children |-> Len(tasks) + 1 + i]]

\* Lines 20-24, 49-54, 77-82: the TaskSpec of the activation's task, with
\* the child ids in the order they were pushed.
TaskSpecOf(frame) == [kind |-> frame.spec.kind, children |-> frame.ids]

\* handlers.rs plan: read the plan's last spec and version, or answer
\* PlanNotFound, and call plan::task on the spec.  `before` is the number of
\* tasks in the store when the request is taken.
PlanRequest(m, plan_id) ==
    /\ planners[m].pc = "idle"
    /\ \A d \in 1..(m - 1) : planners[d].pc # "idle"
    /\ planners' = [planners EXCEPT ![m] =
            IF plan_id \notin DOMAIN plans
            THEN [@ EXCEPT !.pc = "PlanNotFound"]
            ELSE LET versions == plans[plan_id].versions IN
                 IF versions = <<>>
                 THEN [@ EXCEPT !.pc = "PlanNotFound"]
                 ELSE [pc |-> "task",
                       plan |-> TaskPlan(plan_id, Len(versions)),
                       spec |-> versions[Len(versions)],
                       stack |-> Descend(<<NewFrame(versions[Len(versions)])>>),
                       before |-> Len(tasks),
                       created |-> <<>>,
                       result |-> 0]]
    /\ UNCHANGED <<plans, written, response, taskVars, outputVars, lockVars>>

\* plan::task lines 28-40, 56-68, 84-96: the innermost activation inserts
\* its Pending task under a fresh id and returns it to its caller, which
\* pushes the id and goes on to its next child or to its own insert.
plan_task(m) ==
    /\ planners[m].pc = "task"
    /\ LET p == planners[m]
           top == p.stack[Len(p.stack)]
           rest == SubSeq(p.stack, 1, Len(p.stack) - 1)
           id == Len(tasks) + 1
       IN /\ tasks' = Append(tasks, [NewServerTask(TaskSpecOf(top))
                                        EXCEPT !.plan = p.plan])
          /\ planners' = [planners EXCEPT ![m] =
                IF rest = <<>>
                THEN [p EXCEPT !.pc = "Ok", !.stack = <<>>, !.result = id,
                               !.created = Append(@, id)]
                ELSE [p EXCEPT !.created = Append(@, id),
                               !.stack = Descend(
                                    [rest EXCEPT ![Len(rest)].ids =
                                                        Append(@, id)])]]
    /\ runs' = Append(runs, <<>>)
    /\ procs' = Append(procs, <<>>)
    /\ fired' = Append(fired, 0)
    /\ seen' = Append(seen, {"Pending"})
    /\ UNCHANGED <<clients, plans, written, response, outputVars, lockVars>>

\* The materializations of one plan, interleaved with each other and with
\* create_task requests.
NextMaterialize ==
    \/ \E spec \in PlanSpecInputs : plans = <<>> /\ create_plan(spec)
    \/ \E m \in DOMAIN planners, id \in UnknownId..Len(plans) :
            PlanRequest(m, id)
    \/ \E m \in DOMAIN planners : plan_task(m)
    \/ CreateTask(Command)

SpecMaterialize == Init /\ [][NextMaterialize]_vars

\* The PlanSpec that the tasks below a task id spell out, and their ids.
RECURSIVE Rebuild(_)
Rebuild(id) ==
    IF id \notin DOMAIN tasks THEN [kind |-> "None", children |-> <<>>]
    ELSE [kind |-> tasks[id].spec.kind,
          children |-> [i \in DOMAIN tasks[id].spec.children |->
                            Rebuild(tasks[id].spec.children[i])]]

RECURSIVE Subtree(_)
Subtree(id) ==
    IF id \notin DOMAIN tasks THEN {id}
    ELSE {id} \cup UNION {Subtree(tasks[id].spec.children[i]) :
                            i \in DOMAIN tasks[id].spec.children}

CreatedBy(m) == {planners[m].created[i] : i \in DOMAIN planners[m].created}

\* What a finished materialization has left in the store.
Materialized(m) ==
    LET p == planners[m] IN
    /\ p.plan.id \in DOMAIN plans
    /\ p.spec = plans[p.plan.id].versions[p.plan.version]
    /\ Len(p.created) = NodeCount(p.spec)
    /\ Cardinality(CreatedBy(m)) = Len(p.created)
    /\ Rebuild(p.result) = p.spec
    /\ Subtree(p.result) = CreatedBy(m)
    /\ \A t \in CreatedBy(m) :
            /\ t > p.before
            /\ tasks[t].status = "Pending"
            /\ tasks[t].running = 0
            /\ tasks[t].error = NoError
            /\ tasks[t].plan = p.plan

MaterializedAll ==
    /\ \A m \in DOMAIN planners : planners[m].pc = "Ok" => Materialized(m)
    /\ \A m, n \in DOMAIN planners :
            m # n => CreatedBy(m) \cap CreatedBy(n) = {}

\* C17: a finished materialization has created one task per node of the
\* plan tree, under fresh ids, Pending with no process and no error and the
\* plan reference, whose child lists spell out the tree in order and name
\* exactly the created tasks; no step changes a task that is in the store.
C17_OneTaskPerNode ==
    [][/\ MaterializedAll'
       /\ \A t \in DOMAIN tasks : t \in DOMAIN tasks' /\ tasks'[t] = tasks[t]
      ]_vars

C17_Witness ==
    \E m \in DOMAIN planners :
        /\ planners[m].pc = "Ok"
        /\ NodeCount(planners[m].spec) = MaxPlanNodes
        /\ planners[m].spec.kind = "TaskList"
        /\ Len(planners[m].spec.children) = MaxChildren
        /\ planners[m].spec.children[1].kind = "Command"
        /\ planners[m].spec.children[MaxChildren].kind = "TaskGroup"
        /\ planners[m].result - planners[m].created[1] >= MaxPlanNodes

\* C18: every composite task in the store that came from a plan has all of
\* its child ids in the store.
C18_LeavesLast ==
    \A t \in DOMAIN tasks :
        tasks[t].plan # NoPlan =>
            \A i \in DOMAIN tasks[t].spec.children :
                tasks[t].spec.children[i] \in DOMAIN tasks

C18_Witness ==
    \E t \in DOMAIN tasks : \E m \in DOMAIN planners :
        /\ tasks[t].plan # NoPlan
        /\ Len(tasks[t].spec.children) = MaxChildren
        /\ planners[m].pc = "task"
        /\ planners[m].created # <<>>
        /\ t \notin CreatedBy(m)

----------------------------------------------------------------------------
\* The number of updates a plan has had: every update_plan pushes one
\* entry onto the versions the create_plan started with one entry.
Updates(plan_id) == Len(plans[plan_id].versions) - 1

\* C21: after creation and k updates of a plan, the version in the create
\* response (k = 0), in the k-th update response and in a GET response is k.
C21_VersionCountsUpdates ==
    response.status = "Ok" => response.version = Updates(response.id)

----------------------------------------------------------------------------
\* ServerError::into_response: the HTTP status of an answer, 200 for Ok(_).
into_response(result) ==
    CASE result = "Ok" -> 200
      [] result = "InternalServerError" -> 500
      [] result = "PlanNotFound" -> 404
      [] result = "TaskNotFound" -> 404
      [] result = "InvalidTaskState" -> 400

\* A task_output_stream that looks the task up and not its process.
task_output_stream_result_AnyTask(task_id) ==
    IF task_id \notin DOMAIN tasks THEN "TaskNotFound" ELSE "Ok"

\* handlers.rs task_output_stream, the lookup before the stream is built:
\* TaskNotFound when the id is not in the store and when the task's
\* running is None, otherwise Ok with a stream on the process.
task_output_stream_result(task_id) ==
    IF task_id \notin DOMAIN tasks THEN "TaskNotFound"
    ELSE IF tasks[task_id].running = 0 THEN "TaskNotFound"
    ELSE "Ok"

\* C22: a request for a task's output stream is answered 404 when the task
\* does not exist or has no process attached, which holds for every
\* composite task and every Pending command task, and 200 when a process
\* is attached, settled or not.
C22_OutputStreamNotFound ==
    \A id \in UnknownId..MaxTasks :
        LET code == into_response(task_output_stream_result(id))
        IN  /\ id \notin DOMAIN tasks => code = 404
            /\ id \in DOMAIN tasks =>
                /\ tasks[id].running = 0 => code = 404
                /\ tasks[id].running # 0 => code = 200
                /\ tasks[id].spec.kind # "Command" => code = 404
                /\ tasks[id].status = "Pending" => code = 404

\* A failed composite, its failed command child with a process attached,
\* and a Pending command: 404, 200 and 404.
C22_Witness ==
    \E p \in Composites, t, u \in DOMAIN tasks :
        /\ tasks[p].status = "Failure"
        /\ tasks[t].spec.kind = "Command"
        /\ tasks[t].status = "Failure"
        /\ tasks[t].running # 0
        /\ tasks[u].spec.kind = "Command"
        /\ tasks[u].status = "Pending"
        /\ into_response(task_output_stream_result(p)) = 404
        /\ into_response(task_output_stream_result(t)) = 200
        /\ into_response(task_output_stream_result(u)) = 404

----------------------------------------------------------------------------
\* The ids in a composite's child list.
ChildIds(p) == {tasks[p].spec.children[i] : i \in DOMAIN tasks[p].spec.children}

\* C23: the error stored on a composite task in Failure is TaskFailed with
\* the id of one of its children, never its own id and never another kind.
C23_ParentErrorIsTaskFailedChild ==
    \A p \in Composites :
        tasks[p].status = "Failure"
            => /\ tasks[p].error.kind = "TaskFailed"
               /\ tasks[p].error.arg # p
               /\ tasks[p].error.arg \in ChildIds(p)

----------------------------------------------------------------------------
\* The child future at position h of group run r has not finished its
\* start_task and its child is still Pending.
NotYetStarted(r, h) ==
    LET run == runs[r[1]][r[2]] IN
        /\ run.handles[h].pc \in {"start", "admit"}
        /\ run.children[h] \in DOMAIN tasks
        /\ tasks[run.children[h]].status = "Pending"

\* C24: a TaskGroup run moves its children out of Pending in list order:
\* when the child at position j is moved to Running or Waiting, no child at
\* a position i < j is still Pending and waiting for its start.
C24_GroupStartsInListOrder ==
    [][\A r \in GroupRuns :
        \A j \in DOMAIN runs[r[1]][r[2]].handles :
            (/\ r \in GroupRuns'
             /\ ~runs[r[1]][r[2]].handles[j].admitted
             /\ runs'[r[1]][r[2]].handles[j].admitted)
                => \A i \in 1..(j - 1) : ~NotYetStarted(r, i)]_vars

----------------------------------------------------------------------------
\* The server when the store holds command tasks and TaskGroups only: the
\* create requests carry a Command or a `parallel`, and the steps left are
\* those of the Command and TaskGroup branches of run_task.
GroupSpecInputs(n) == {spec \in SpecInputs(n) : spec.kind # "TaskList"}

NextGroup ==
    \/ \E spec \in GroupSpecInputs(Len(tasks)) : CreateTask(spec)
    \/ \E c \in DOMAIN clients, t \in UnknownId..Len(tasks) : ClientStart(c, t)
    \/ \E c \in DOMAIN clients : ClientAdmit(c)
    \/ \E r \in Runs : RunCommand(r[1], r[2])
    \/ \E p \in Procs, ok \in BOOLEAN, status \in ExitCodes :
            ProcessRun(p[1], p[2], ok, status)
    \/ \E p \in Procs : CommandSettle(p[1], p[2])
    \/ \E r \in Runs : RunTaskGroup(r[1], r[2])
    \/ \E r \in Runs, h \in 1..MaxChildren : HandleStart(r[1], r[2], h)
    \/ \E r \in Runs, h \in 1..MaxChildren : HandleAdmit(r[1], r[2], h)
    \/ \E r \in Runs, h \in 1..MaxChildren : HandleWait(r[1], r[2], h)
    \/ \E r \in Runs, h \in 1..MaxChildren : HandleWoken(r[1], r[2], h)
    \/ \E r \in Runs : GroupSettle(r[1], r[2])

SpecGroup == Init /\ [][NextGroup]_vars /\ Fairness

\* Task c is a Pending child of the started TaskGroup p.
PendingChildOfStarted(p, c) ==
    IF p \in DOMAIN tasks /\ c \in DOMAIN tasks
    THEN /\ tasks[p].spec.kind = "TaskGroup"
         /\ tasks[p].status = "Waiting"
         /\ c \in ChildIds(p)
         /\ tasks[c].status = "Pending"
    ELSE FALSE

\* C25: under fair scheduling of the spawned futures, every child of a
\* TaskGroup that is Pending once the group has been started eventually
\* leaves Pending, whatever became of the group's other children.
C25_GroupStartsEveryChild ==
    \A p \in 1..MaxTasks : \A c \in 1..MaxTasks :
        PendingChildOfStarted(p, c)
            ~> (IF c \in DOMAIN tasks
                THEN tasks[c].status # "Pending" ELSE FALSE)

\* A group run whose first child future ended in an error and whose second
\* child future moved its child out of Pending.
C25_Witness ==
    \E r \in GroupRuns :
        LET run == runs[r[1]][r[2]] IN
            /\ Len(run.handles) = 2
            /\ run.handles[1].pc = "done"
            /\ run.handles[1].res # NoError
            /\ run.handles[2].admitted
            /\ tasks[run.children[2]].status # "Pending"

----------------------------------------------------------------------------
\* C26: a finish_task or fail_task on a task changes the status and error
\* of that task only: the record of every other task, its processes, and
\* the futures of every task that is not waiting for it stay as they were.
C26_SettleChangesOnlyThatTask ==
    [][\A t \in DOMAIN tasks :
        fired'[t] # fired[t]
            => /\ tasks'[t] = [tasks[t] EXCEPT !.status = tasks'[t].status,
                                               !.error = tasks'[t].error]
               /\ \A u \in DOMAIN tasks \ {t} :
                    /\ tasks'[u] = tasks[u]
                    /\ procs'[u] = procs[u]
                    /\ t \notin ChildIds(u) => runs'[u] = runs[u]]_vars

\* A group run with a failed first child whose second child, left alone,
\* went on to Success.
C26_Witness ==
    \E r \in GroupRuns :
        LET run == runs[r[1]][r[2]] IN
            /\ Len(run.handles) = 2
            /\ run.children[1] # run.children[2]
            /\ run.handles[1].admitted
            /\ run.handles[2].admitted
            /\ tasks[run.children[1]].status = "Failure"
            /\ fired[run.children[1]] = 1
            /\ tasks[run.children[2]].status = "Success"
            /\ fired[run.children[2]] = 1

----------------------------------------------------------------------------
\* C27: a finish_task or fail_task on a task that is already Success or
\* Failure is a no-op: the task's `finished` is not signalled again, and a
\* step from a terminal status to a terminal status keeps status and error.
C27_SettleIdempotent ==
    [][\A t \in DOMAIN tasks :
        tasks[t].status \in Terminal
            => /\ fired'[t] = fired[t]
               /\ tasks'[t].status \in Terminal
                    => /\ tasks'[t].status = tasks[t].status
                       /\ tasks'[t].error = tasks[t].error]_vars

----------------------------------------------------------------------------
\* C28: the exit status is recorded only after both readers have appended
\* all their lines: once the status is set the output buffer does not grow.
C28_StatusAfterReaders ==
    [][process.status # -1 => process'.output = process.output]_vars

----------------------------------------------------------------------------
\* C29: the output buffer is append-only: a step leaves it unchanged or
\* appends one line at its end, so no entry changes or is removed.
C29_OutputAppendOnly ==
    [][\/ process'.output = process.output
       \/ /\ Len(process'.output) = Len(process.output) + 1
          /\ \A i \in DOMAIN process.output :
                process'.output[i] = process.output[i]]_vars

\* A buffer holding lines of both readers while two consumers are reading
\* it, one of them behind the other.
C29_Witness ==
    /\ Len(process.output) >= 2
    /\ \E i, j \in DOMAIN process.output :
            process.output[i].from # process.output[j].from
    /\ Len(streams) = 2
    /\ streams[1].index >= 1
    /\ streams[2].index > streams[1].index

----------------------------------------------------------------------------
\* start_task lines 51-55: the TaskState returned, read from the record
\* while its lock is still held.
TaskState(ts, task_id) ==
    [id |-> task_id, spec |-> ts[task_id].spec, status |-> ts[task_id].status]

\* C30: a start that succeeds on a task (it spawns a run of it) leaves a
\* Command task Running and a TaskGroup or TaskList task Waiting and returns
\* that status; in every state a Running task is a Command and a Waiting
\* task is a TaskGroup or a TaskList.
C30_StartSetsRunningOrWaiting ==
    /\ [](\A t \in DOMAIN tasks :
            /\ tasks[t].status = "Running" => tasks[t].spec.kind = "Command"
            /\ tasks[t].status = "Waiting"
                    => tasks[t].spec.kind \in {"TaskGroup", "TaskList"})
    /\ [][\A t \in DOMAIN tasks :
            Len(runs'[t]) > Len(runs[t])
                => /\ TaskState(tasks', t).id = t
                   /\ TaskState(tasks', t).spec = tasks[t].spec
                   /\ TaskState(tasks', t).status =
                        IF tasks[t].spec.kind = "Command"
                        THEN "Running" ELSE "Waiting"]_vars

\* A started composite that is Waiting with a started command that is
\* Running, both starts having returned.
C30_Witness ==
    \E p \in Composites, t \in DOMAIN tasks :
        /\ tasks[p].status = "Waiting"
        /\ Len(runs[p]) = 1
        /\ tasks[t].spec.kind = "Command"
        /\ tasks[t].status = "Running"
        /\ Len(runs[t]) = 1
        /\ \E c \in DOMAIN clients : clients[c].pc = "Ok"

----------------------------------------------------------------------------
\* The two kinds of tokio Mutex of the server and the steps an operation
\* takes on them: mutex 0 is Server.tasks (the store lock), mutex t > 0 is
\* the Mutex<ServerTask> of task t (its record lock).  A guard is released
\* where the code drops it: a temporary at the end of its condition, match
\* arm or statement, a `let` binding at the end of its block.
StoreLock == 0
Lock(l) == [op |-> "lock", lock |-> l]
Unlock(l) == [op |-> "unlock", lock |-> l]
Notified(t) == [op |-> "notified", lock |-> t]

\* `match server.tasks.lock().await.get(&id) { Some(task) => ..task.lock()..}`:
\* the record is locked under the store lock and released before it; an id
\* that is not in the store takes the store lock only.
Lookup(t) ==
    IF t = UnknownId
    THEN <<Lock(StoreLock), Unlock(StoreLock)>>
    ELSE <<Lock(StoreLock), Lock(t), Unlock(t), Unlock(StoreLock)>>

\* `let mut task = task.lock().await;` on a record cloned out of the store.
Record(t) == <<Lock(t), Unlock(t)>>

\* run.rs start_task: the Pending check (lines 21-32), then for a Pending
\* task the status write and the spawn under the record lock (lines 34-56).
start_task_locks(t, pending) ==
    IF t # UnknownId /\ pending THEN Lookup(t) \o Record(t) ELSE Lookup(t)

\* run.rs finish_task and fail_task (lines 167-171, 184-189).
finish_task_locks(t) == Lookup(t)

\* A wait_task that keeps the record locked while it awaits `finished`.
wait_task_locks_HoldsRecord(t) ==
    IF t = UnknownId THEN Lookup(t)
    ELSE <<Lock(StoreLock), Lock(t), Unlock(StoreLock), Notified(t),
           Lock(StoreLock), Unlock(t), Unlock(StoreLock)>>

\* run.rs wait_task: clone `finished` (lines 197-202), await the
\* notification (line 204), read the status (lines 205-224).
wait_task_locks(t) ==
    IF t = UnknownId THEN Lookup(t)
    ELSE Lookup(t) \o <<Notified(t)>> \o Lookup(t)

\* run.rs run_task: the lookup (lines 64-69: store lock only), the spec
\* (line 71), then the Command branch under the record lock (lines 74-78),
\* or a TaskList of one child c (lines 128-153), or a TaskGroup, whose
\* children are started and awaited in futures of their own (lines 93-116)
\* before finish_task (line 125).
run_task_lookup(t) ==
    <<Lock(StoreLock), Unlock(StoreLock)>> \o Record(t)

run_task_locks(t, kind, c) ==
    CASE kind = "Command" -> run_task_lookup(t) \o Record(t)
      [] kind = "TaskGroup" -> run_task_lookup(t) \o finish_task_locks(t)
      [] kind = "TaskList" ->
            run_task_lookup(t) \o start_task_locks(c, TRUE)
                \o wait_task_locks(c) \o finish_task_locks(t)

\* handlers.rs get_task (lines 82-93) and task_output_stream (163-175).
get_task_locks(t) == Lookup(t)

\* handlers.rs list_tasks (lines 116-124): every record in turn under the
\* store lock.
RECURSIVE EachRecord(_)
EachRecord(n) ==
    IF n = 0 THEN <<>> ELSE EachRecord(n - 1) \o Record(n)

list_tasks_locks ==
    <<Lock(StoreLock)>> \o EachRecord(MaxLockTasks) \o <<Unlock(StoreLock)>>

\* The operations a request or a spawned future can be, on a store that
\* holds tasks 1..MaxLockTasks.
Operations ==
    {start_task_locks(t, p) : t \in UnknownId..MaxLockTasks, p \in BOOLEAN}
    \cup {finish_task_locks(t) : t \in 1..MaxLockTasks}
    \cup {wait_task_locks(t) : t \in UnknownId..MaxLockTasks}
    \cup {get_task_locks(t) : t \in UnknownId..MaxLockTasks}
    \cup {run_task_locks(t, "Command", t) : t \in 1..MaxLockTasks}
    \cup {run_task_locks(t, "TaskGroup", t) : t \in 1..MaxLockTasks}
    \cup {run_task_locks(p[1], "TaskList", p[2]) :
            p \in {q \in (1..MaxLockTasks) \X (1..MaxLockTasks) :
                        q[1] # q[2]}}
    \cup {list_tasks_locks}

\* A request arrives or a future is spawned.
Call(o, program) ==
    /\ ops[o].todo = <<>>
    /\ ops' = [ops EXCEPT ![o].todo = program]
    /\ UNCHANGED <<holder, taskVars, outputVars, planVars>>

\* `mutex.lock().await` returns once the mutex is free.
Acquire(o) ==
    /\ ops[o].todo # <<>>
    /\ Head(ops[o].todo).op = "lock"
    /\ LET l == Head(ops[o].todo).lock IN
        /\ holder[l] = 0
        /\ holder' = [holder EXCEPT ![l] = o]
        /\ ops' = [ops EXCEPT ![o].todo = Tail(@),
                              ![o].held = Append(@, l)]
    /\ UNCHANGED <<taskVars, outputVars, planVars>>

\* A guard is dropped.
Release(o) ==
    /\ ops[o].todo # <<>>
    /\ Head(ops[o].todo).op = "unlock"
    /\ LET l == Head(ops[o].todo).lock IN
        /\ holder' = [holder EXCEPT ![l] = 0]
        /\ ops' = [ops EXCEPT
                ![o].todo = Tail(@),
                ![o].held = SelectSeq(@, LAMBDA h : h # l)]
    /\ UNCHANGED <<taskVars, outputVars, planVars>>

\* `finished.notified().await` returns (the notification is not a mutex).
Wake(o) ==
    /\ ops[o].todo # <<>>
    /\ Head(ops[o].todo).op = "notified"
    /\ ops' = [ops EXCEPT ![o].todo = Tail(@)]
    /\ UNCHANGED <<holder, taskVars, outputVars, planVars>>

NextLocks ==
    \/ \E o \in DOMAIN ops, program \in Operations : Call(o, program)
    \/ \E o \in DOMAIN ops : Acquire(o)
    \/ \E o \in DOMAIN ops : Release(o)
    \/ \E o \in DOMAIN ops : Wake(o)

SpecLocks == Init /\ [][NextLocks]_vars

\* Operation o can take its next step.
CanStep(o) ==
    /\ ops[o].todo # <<>>
    /\ Head(ops[o].todo).op = "lock" => holder[Head(ops[o].todo).lock] = 0

\* C31: an operation takes the store lock only while it holds no lock, so
\* the store lock comes before a record lock; it holds at most one record
\* lock; it holds no lock while it awaits `finished`; and whenever an
\* operation is under way some operation under way can take a step.
C31_LockingDiscipline ==
    /\ \A o \in DOMAIN ops :
        /\ \A i, j \in DOMAIN ops[o].held :
                i < j => ops[o].held[j] # StoreLock
        /\ Cardinality({i \in DOMAIN ops[o].held :
                            ops[o].held[i] # StoreLock}) <= 1
        /\ (ops[o].todo # <<>> /\ Head(ops[o].todo).op = "notified")
                => ops[o].held = <<>>
    /\ (\E o \in DOMAIN ops : ops[o].todo # <<>>)
            => \E o \in DOMAIN ops : CanStep(o)

\* One wait_task awaits `finished` with no lock held while a second
\* operation holds the store lock and a record lock and a third waits for
\* the store lock.
C31_Witness ==
    \E a, b, c \in DOMAIN ops :
        /\ ops[a].todo # <<>> /\ Head(ops[a].todo).op = "notified"
        /\ ops[a].held = <<>>
        /\ Len(ops[b].held) = 2
        /\ ops[c].todo # <<>> /\ ~CanStep(c)

----------------------------------------------------------------------------
\* C32: under fair scheduling of the spawned futures, with every process
\* exiting or failing to spawn, every task that has been started (Running
\* or Waiting) eventually is Success or Failure.
C32_StartedTasksSettle ==
    \A t \in 1..MaxTasks :
        (IF t \in DOMAIN tasks
         THEN tasks[t].status \in {"Running", "Waiting"} ELSE FALSE)
            ~> (IF t \in DOMAIN tasks
                THEN tasks[t].status \in Terminal ELSE FALSE)

----------------------------------------------------------------------------
\* C33: a task in Failure has a stored error, so wait_task's unwrap of the
\* error of a failed task finds a value; a task that is Pending, Running or
\* Waiting and has never been settled has none.
C33_FailureHasError ==
    \A t \in DOMAIN tasks :
        /\ tasks[t].status = "Failure" => tasks[t].error # NoError
        /\ (tasks[t].status \notin Terminal /\ seen[t] \cap Terminal = {})
                => tasks[t].error = NoError

\* A failed child with its error, read by the wait_task of its parent's run,
\* which failed the parent in turn, beside a task that was never settled.
C33_Witness ==
    \E p \in Composites, c, u \in DOMAIN tasks :
        /\ c \in ChildIds(p)
        /\ tasks[c].status = "Failure"
        /\ tasks[c].error = CommandFailed
        /\ tasks[p].status = "Failure"
        /\ tasks[p].error = TaskFailed(c)
        /\ tasks[u].status = "Running"
        /\ seen[u] \cap Terminal = {}

----------------------------------------------------------------------------
\* Weak fairness of the two reader tasks, of the future that runs the
\* process and of every consumer's polling.
FairnessOutput ==
    /\ WF_vars(StdoutReader)
    /\ WF_vars(StderrReader)
    /\ WF_vars(\E ok \in BOOLEAN, nout \in 0..MaxLines, nerr \in 0..1 :
                    ProcessSpawn(ok, nout, nerr))
    /\ WF_vars(\E ok \in BOOLEAN, status \in ExitCodes : ProcessWait(ok, status))
    /\ \A s \in 1..MaxStreams :
            WF_vars(IF s \in DOMAIN streams THEN poll_next(s) ELSE FALSE)

SpecOutputFair == SpecOutput /\ FairnessOutput

\* Process::run has returned, Ok or Err, so that run_task settles the task.
ProcessReturned == process.pc \in {"Ok", "Err"}

\* C34: under fair scheduling every output stream open on a command task
\* whose process has returned (the task settles) reaches end-of-stream,
\* also when the process could not be spawned.
C34_StreamEndsAfterSettle ==
    \A s \in 1..MaxStreams :
        (IF s \in DOMAIN streams THEN ProcessReturned ELSE FALSE)
            ~> (IF s \in DOMAIN streams THEN streams[s].ended ELSE FALSE)

----------------------------------------------------------------------------
\* C35: once a start request on a command task has returned Ok, an
\* output-stream request for that task finds a process attached and is not
\* answered not-found.
C35_StartThenTailFindsProcess ==
    [][\A c \in DOMAIN clients :
        (/\ clients[c].pc = "admit"
         /\ clients'[c].pc = "Ok"
         /\ tasks[clients[c].task].spec.kind = "Command")
            => task_output_stream_result(clients[c].task)' = "Ok"]_vars

====
